---- MODULE Spec2Model ----
(***************************************************************************)
(* Model of the sizing core of app.py: the tier tables, the stop-loss      *)
(* policy, compute_tp_percent_for_target_account_gain and calc.            *)
(*                                                                         *)
(* Numbers.  The program computes with Python floats.  Here every float is *)
(* an exact rational [num, den] in lowest terms with den > 0, so 0.25 is   *)
(* 1/4 and 0.175 is 7/40; float("inf") is 1/0.  The arithmetic is exact:   *)
(* the ~1e-16 relative error of binary floating point is not modelled, so  *)
(* the program can differ from the model only where a value lies exactly   *)
(* on a boundary: a price on a half cent, a quotient on an integer, or two *)
(* candidates at exactly the same distance from the target.                *)
(* A division by zero, which raises ZeroDivisionError in Python, yields    *)
(* the value DivErr (0/0), which every later operation propagates and      *)
(* which makes the calling step end in pc = "raised".                      *)
(***************************************************************************)
EXTENDS Integers, Sequences, FiniteSets

\* ------------------------------------------------------------------------
\* Exact arithmetic standing for the float operators of the program
\* ------------------------------------------------------------------------

IAbs(i) == IF i < 0 THEN -i ELSE i

RECURSIVE GCD(_, _)
GCD(a, b) == IF b = 0 THEN a ELSE GCD(b, a % b)

DivErr == [num |-> 0, den |-> 0]
INF == [num |-> 1, den |-> 0]
None == [num |-> -1, den |-> 0]

IsErr(a) == a = DivErr

\* the float with value n/d
Rat(n, d) ==
    IF d = 0 THEN DivErr
    ELSE LET g == GCD(IAbs(n), IAbs(d))
             s == IF d < 0 THEN -1 ELSE 1
         IN  [num |-> s * (n \div g), den |-> s * (d \div g)]

Num(k) == Rat(k, 1)

\* The operators on values.  Each R-operator below first evaluates its
\* operands (binding them to a and b) and then applies one of these.
rat_add(a, b) ==
    IF IsErr(a) \/ IsErr(b) THEN DivErr
    ELSE LET g == GCD(a.den, b.den)
         IN  Rat(a.num * (b.den \div g) + b.num * (a.den \div g),
                 (a.den \div g) * b.den)

rat_neg(a) == IF IsErr(a) THEN DivErr ELSE [num |-> -a.num, den |-> a.den]

rat_mul(a, b) ==
    IF IsErr(a) \/ IsErr(b) THEN DivErr
    ELSE LET g1 == GCD(IAbs(a.num), b.den)
             g2 == GCD(IAbs(b.num), a.den)
         IN  Rat((a.num \div g1) * (b.num \div g2),
                 (a.den \div g2) * (b.den \div g1))

rat_div(a, b) ==
    IF IsErr(a) \/ IsErr(b) \/ b.num = 0 THEN DivErr
    ELSE rat_mul(a, Rat(b.den, b.num))

rat_lt(a, b) ==
    LET g == GCD(a.den, b.den)
    IN  a.num * (b.den \div g) < b.num * (a.den \div g)

rat_le(a, b) ==
    LET g == GCD(a.den, b.den)
    IN  a.num * (b.den \div g) <= b.num * (a.den \div g)

rat_floor(a) == IF IsErr(a) THEN DivErr ELSE Num(a.num \div a.den)

\* mutant of line 196: the price is cut to the cent below instead of rounded
half_truncated(x) == x.num \div x.den

\* the integer nearest to x, an exact half going to the even neighbour
half_even(x) ==
    LET q == x.num \div x.den
        r == x.num % x.den
    IN  IF 2 * r < x.den THEN q
        ELSE IF 2 * r > x.den THEN q + 1
        ELSE IF q % 2 = 0 THEN q ELSE q + 1

rat_round2(a) ==
    IF IsErr(a) THEN DivErr ELSE Rat(half_even(rat_mul(a, Num(100))), 100)

\* x + y
RAdd(x, y) == CHOOSE r \in {rat_add(a, b) : a \in {x}, b \in {y}} : TRUE

RNeg(x) == CHOOSE r \in {rat_neg(a) : a \in {x}} : TRUE

\* x - y
RSub(x, y) == CHOOSE r \in {rat_add(a, rat_neg(b)) : a \in {x}, b \in {y}} : TRUE

\* x * y
RMul(x, y) == CHOOSE r \in {rat_mul(a, b) : a \in {x}, b \in {y}} : TRUE

\* x / y; Python raises ZeroDivisionError when y is zero
RDiv(x, y) == CHOOSE r \in {rat_div(a, b) : a \in {x}, b \in {y}} : TRUE

\* x < y, x <= y (y may be INF)
RLt(x, y) == \E a \in {x}, b \in {y} : rat_lt(a, b)

RLe(x, y) == \E a \in {x}, b \in {y} : rat_le(a, b)

\* max(x, y), min(x, y)
RMax(x, y) == CHOOSE r \in {IF rat_lt(a, b) THEN b ELSE a : a \in {x}, b \in {y}} : TRUE

RMin(x, y) == CHOOSE r \in {IF rat_lt(b, a) THEN b ELSE a : a \in {x}, b \in {y}} : TRUE

\* abs(x)
RAbs(x) ==
    CHOOSE r \in {IF IsErr(a) THEN DivErr ELSE [num |-> IAbs(a.num), den |-> a.den]
                  : a \in {x}} : TRUE

\* math.floor(x)
RFloor(x) == CHOOSE r \in {rat_floor(a) : a \in {x}} : TRUE

\* round(x, 2): nearest multiple of 0.01, an exact half goes to the even one
RRound2(x) == CHOOSE r \in {rat_round2(a) : a \in {x}} : TRUE

Zero == Num(0)

\* ------------------------------------------------------------------------
\* CONFIG
\* ------------------------------------------------------------------------

MIN_TICK == Rat(1, 100)

\* mutant of INVEST_TIERS: the percentages of the first two tiers are swapped
INVEST_TIERS_swapped ==
    << <<Num(25000), Num(25)>>,
       <<Num(100000), Num(35)>>,
       <<Num(300000), Num(15)>>,
       <<INF, Num(8)>> >>

INVEST_TIERS ==
    << <<Num(25000), Num(35)>>,
       <<Num(100000), Num(25)>>,
       <<Num(300000), Num(15)>>,
       <<INF, Num(8)>> >>

RISK_TIERS ==
    << <<Num(25000), Num(2)>>,
       <<Num(100000), Rat(18, 10)>>,
       <<Num(300000), Rat(15, 10)>>,
       <<INF, Rat(12, 10)>> >>

SL_TRADE1_BASE == Num(30)
SL_TRADE2_BASE == Num(24)

TRADE2_TIGHTENING_RULES ==
    << <<Rat(25, 100), Num(4)>>,
       <<Rat(35, 100), Num(3)>>,
       <<Rat(50, 100), Num(2)>>,
       <<INF, Num(0)>> >>

SL_TRADE2_MIN == Num(15)
SL_TRADE2_MAX == Num(26)

MIN_GOAL_ACCT_GAIN == Rat(20, 100)
MAX_GOAL_ACCT_GAIN == Num(1)

\* ------------------------------------------------------------------------
\* HELPERS
\* ------------------------------------------------------------------------

\* index of the first tier the loop of tier_lookup stops at, 0 if none
RECURSIVE first_tier(_, _, _)
first_tier(value, tiers, i) ==
    IF i > Len(tiers) THEN 0
    ELSE IF RLe(value, tiers[i][1]) THEN i
    ELSE first_tier(value, tiers, i + 1)

tier_lookup(value, tiers) ==
    LET i == first_tier(value, tiers, 1)
    IN  IF i = 0 THEN tiers[Len(tiers)][2] ELSE tiers[i][2]

\* mutant of lines 56-59: Trade #2 keeps the full deploy percentage
invest_percent_not_halved(balance_, trade_number_) ==
    tier_lookup(balance_, INVEST_TIERS)

invest_percent(balance_, trade_number_) ==
    LET base == tier_lookup(balance_, INVEST_TIERS)
    IN  IF trade_number_ = 1 THEN base ELSE RDiv(base, Num(2))

base_risk_percent(balance_) == tier_lookup(balance_, RISK_TIERS)

\* mutant of lines 67-74: the tightening is added to the base instead of
\* subtracted from it
trade2_dynamic_sl_loosened(entry_price_) ==
    LET i == first_tier(entry_price_, TRADE2_TIGHTENING_RULES, 1)
        extra == IF i = 0 THEN Zero ELSE TRADE2_TIGHTENING_RULES[i][2]
        sl == RAdd(SL_TRADE2_BASE, extra)
    IN  RMax(SL_TRADE2_MIN, RMin(SL_TRADE2_MAX, sl))

trade2_dynamic_sl(entry_price_) ==
    LET i == first_tier(entry_price_, TRADE2_TIGHTENING_RULES, 1)
        extra == IF i = 0 THEN Zero ELSE TRADE2_TIGHTENING_RULES[i][2]
        sl == RSub(SL_TRADE2_BASE, extra)
    IN  RMax(SL_TRADE2_MIN, RMin(SL_TRADE2_MAX, sl))


\* line 93: net target in dollars
tp_profit_goal_net(balance_, target_account_gain_pct) ==
    RMul(balance_, RDiv(target_account_gain_pct, Num(100)))

\* mutant of line 96: one-way fees in the TP solver
tp_total_fees_one_way(fee_per_contract_, contracts) ==
    RMul(fee_per_contract_, Num(contracts))

\* line 96: estimated round-trip fees (buy + sell)
tp_total_fees_est(fee_per_contract_, contracts) ==
    RMul(RMul(fee_per_contract_, Num(contracts)), Num(2))

\* mutant of line 99: the fees are not added to the net goal
tp_profit_goal_gross_no_fees(balance_, contracts, target_account_gain_pct, fee_per_contract_) ==
    tp_profit_goal_net(balance_, target_account_gain_pct)

\* line 99: profit before fees needed to hit the net goal
tp_profit_goal_gross(balance_, contracts, target_account_gain_pct, fee_per_contract_) ==
    RAdd(tp_profit_goal_net(balance_, target_account_gain_pct),
         tp_total_fees_est(fee_per_contract_, contracts))

\* mutant of lines 89-90: the guard rejects a single contract (contracts <= 1)
compute_tp_rejects_one(balance_, entry_price_, contracts, target_account_gain_pct, fee_per_contract_) ==
    IF contracts <= 1 \/ RLe(balance_, Zero) \/ RLe(entry_price_, Zero) THEN None
    ELSE RMul(RDiv(tp_profit_goal_gross(balance_, contracts, target_account_gain_pct,
                                        fee_per_contract_),
                   RMul(RMul(entry_price_, Num(100)), Num(contracts))),
              Num(100))

compute_tp_percent_for_target_account_gain(balance_, entry_price_, contracts, target_account_gain_pct, fee_per_contract_) ==
    IF contracts <= 0 \/ RLe(balance_, Zero) \/ RLe(entry_price_, Zero) THEN None
    ELSE LET profit_goal_gross ==
                 tp_profit_goal_gross(balance_, contracts, target_account_gain_pct,
                                      fee_per_contract_)
             denom == RMul(RMul(entry_price_, Num(100)), Num(contracts))
         IN  IF RLe(denom, Zero) THEN None
             ELSE RMul(RDiv(profit_goal_gross, denom), Num(100))

\* ------------------------------------------------------------------------
\* CORE CALC
\* ------------------------------------------------------------------------

\* mutant of lines 140-143: the guard cost_per_contract > 0 is missing
max_by_invest_unguarded(inv_budget, cost_per_contract) ==
    RFloor(RDiv(inv_budget, cost_per_contract))

\* lines 140-143; the int of math.floor is kept as a rational with den = 1
max_by_invest_of(inv_budget, cost_per_contract) ==
    IF RLt(Zero, cost_per_contract)
    THEN RFloor(RDiv(inv_budget, cost_per_contract))
    ELSE Zero

\* mutant of lines 145-148: one contract more than the risk budget covers
max_by_risk_plus_one(rsk_budget, loss_per_contract) ==
    IF RLt(Zero, loss_per_contract)
    THEN RAdd(RFloor(RDiv(rsk_budget, loss_per_contract)), Num(1))
    ELSE Zero

\* mutant of lines 145-148: rounds up instead of down
max_by_risk_ceil(rsk_budget, loss_per_contract) ==
    IF RLt(Zero, loss_per_contract)
    THEN RNeg(RFloor(RNeg(RDiv(rsk_budget, loss_per_contract))))
    ELSE Zero

\* lines 145-148
max_by_risk_of(rsk_budget, loss_per_contract) ==
    IF RLt(Zero, loss_per_contract)
    THEN RFloor(RDiv(rsk_budget, loss_per_contract))
    ELSE Zero

\* mutant of lines 124-127: Trade #2 keeps the full risk percentage
rsk_pct_not_halved(rsk_pct_base, trade_number_) == rsk_pct_base

\* lines 124-127: Trade #2 uses half risk budget as well as half deploy
rsk_pct_of(rsk_pct_base, trade_number_) ==
    IF trade_number_ = 1 THEN rsk_pct_base ELSE RDiv(rsk_pct_base, Num(2))

\* line 133
sl_pct_of(entry_price_, trade_number_) ==
    IF trade_number_ = 1 THEN SL_TRADE1_BASE ELSE trade2_dynamic_sl(entry_price_)

\* lines 120-130: deploy and risk percentages and budgets
sizing_budgets(balance_, trade_number_) ==
    LET inv_pct == invest_percent(balance_, trade_number_)
        rsk_pct == rsk_pct_of(base_risk_percent(balance_), trade_number_)
    IN  [inv_pct |-> inv_pct, rsk_pct |-> rsk_pct,
         inv_budget |-> RDiv(RMul(balance_, inv_pct), Num(100)),
         rsk_budget |-> RDiv(RMul(balance_, rsk_pct), Num(100))]

\* lines 135-137, for the stop percentage sl_pct of line 133
sizing_stop(entry_price_, sl_pct) ==
    LET sl_price == RMul(entry_price_, RSub(Num(1), RDiv(sl_pct, Num(100))))
    IN  [sl_pct |-> sl_pct,
         cost_per_contract |-> RMul(entry_price_, Num(100)),
         sl_price |-> sl_price,
         loss_per_contract |-> RMul(RSub(entry_price_, sl_price), Num(100))]

\* line 150, for the two limits mbi and mbr of lines 140-148.  "raised"
\* tells that one of their divisions raised ZeroDivisionError.
sizing_limits(b, st, mbi, mbr) ==
    LET raised == IsErr(mbi) \/ IsErr(mbr)
        max_by_invest == IF raised THEN 0 ELSE mbi.num
        max_by_risk == IF raised THEN 0 ELSE mbr.num
        lo == IF max_by_risk < max_by_invest THEN max_by_risk ELSE max_by_invest
    IN  [inv_pct |-> b.inv_pct, rsk_pct |-> b.rsk_pct,
         inv_budget |-> b.inv_budget, rsk_budget |-> b.rsk_budget,
         sl_pct |-> st.sl_pct, cost_per_contract |-> st.cost_per_contract,
         sl_price |-> st.sl_price, loss_per_contract |-> st.loss_per_contract,
         max_by_invest |-> max_by_invest, max_by_risk |-> max_by_risk,
         max_contracts |-> IF lo > 0 THEN lo ELSE 0,
         raised |-> raised]

\* lines 139-150, for the budgets b and the stop st
sizing_contracts(b, st) ==
    sizing_limits(b, st,
                  max_by_invest_of(b.inv_budget, st.cost_per_contract),
                  max_by_risk_of(b.rsk_budget, st.loss_per_contract))

\* lines 120-150: the locals of calc before the search
sizing(balance_, entry_price_, trade_number_) ==
    sizing_contracts(sizing_budgets(balance_, trade_number_),
                     sizing_stop(entry_price_, sl_pct_of(entry_price_, trade_number_)))

\* mutant of lines 154-175: the loss at the stop of one contract is reported
zero_plan_with_loss(s, entry_price_) ==
    [contracts |-> 0,
     inv_pct |-> s.inv_pct, rsk_pct |-> s.rsk_pct, sl_pct |-> s.sl_pct,
     tp_pct_effective |-> Zero, pos_cost |-> Zero,
     tp_price |-> entry_price_, sl_price |-> s.sl_price,
     profit_tp_gross |-> Zero, loss_sl |-> s.loss_per_contract,
     total_fees_est |-> Zero, net_profit_tp |-> Zero,
     acct_gain_tp_gross |-> Zero, acct_loss_sl_gross |-> Zero,
     acct_gain_tp_net |-> Zero,
     max_by_invest |-> s.max_by_invest, max_by_risk |-> s.max_by_risk,
     inv_budget |-> s.inv_budget, rsk_budget |-> s.rsk_budget,
     cost_per_contract |-> s.cost_per_contract]

\* lines 154-175: the "zero" plan
zero_plan(s, entry_price_) ==
    [contracts |-> 0,
     inv_pct |-> s.inv_pct, rsk_pct |-> s.rsk_pct, sl_pct |-> s.sl_pct,
     tp_pct_effective |-> Zero, pos_cost |-> Zero,
     tp_price |-> entry_price_, sl_price |-> s.sl_price,
     profit_tp_gross |-> Zero, loss_sl |-> Zero,
     total_fees_est |-> Zero, net_profit_tp |-> Zero,
     acct_gain_tp_gross |-> Zero, acct_loss_sl_gross |-> Zero,
     acct_gain_tp_net |-> Zero,
     max_by_invest |-> s.max_by_invest, max_by_risk |-> s.max_by_risk,
     inv_budget |-> s.inv_budget, rsk_budget |-> s.rsk_budget,
     cost_per_contract |-> s.cost_per_contract]

\* lines 262-283: the fallback plan after a search without candidate
fallback_plan(s, entry_price_) ==
    [contracts |-> 0,
     inv_pct |-> s.inv_pct, rsk_pct |-> s.rsk_pct, sl_pct |-> s.sl_pct,
     tp_pct_effective |-> Zero, pos_cost |-> Zero,
     tp_price |-> entry_price_, sl_price |-> s.sl_price,
     profit_tp_gross |-> Zero, loss_sl |-> Zero,
     total_fees_est |-> Zero, net_profit_tp |-> Zero,
     acct_gain_tp_gross |-> Zero, acct_loss_sl_gross |-> Zero,
     acct_gain_tp_net |-> Zero,
     max_by_invest |-> s.max_by_invest, max_by_risk |-> s.max_by_risk,
     inv_budget |-> s.inv_budget, rsk_budget |-> s.rsk_budget,
     cost_per_contract |-> s.cost_per_contract]

\* mutant of lines 193-200: the one-tick bump of lines 199-200 is missing
tp_price_no_bump(entry_price_, tp_pct_raw) ==
    RRound2(RMul(entry_price_, RAdd(Num(1), RDiv(tp_pct_raw, Num(100)))))

\* lines 198-200: ensure TP > entry, otherwise bump by one tick
tp_price_bumped(entry_price_, tp_price) ==
    IF RLe(tp_price, entry_price_)
    THEN RRound2(RAdd(entry_price_, MIN_TICK))
    ELSE tp_price

\* lines 193-200: unrounded TP price, rounded to the cent, bumped one tick
\* when the rounded price is not above the entry price
tp_price_of(entry_price_, tp_pct_raw) ==
    tp_price_bumped(entry_price_,
        RRound2(RMul(entry_price_, RAdd(Num(1), RDiv(tp_pct_raw, Num(100))))))

\* line 214: fees (round-trip) of a candidate
total_fees_est_of(fee_per_contract_, n_) ==
    RMul(RMul(fee_per_contract_, Num(n_)), Num(2))

\* lines 202-254: the candidate for contract count n_ at the price tp_price
candidate_at(s, balance_, entry_price_, target_gain_pct_, fee_per_contract_, n_, tp_price) ==
    LET profit_tp_gross ==
            RMul(RMul(RSub(tp_price, entry_price_), Num(100)), Num(n_))
        loss_sl ==
            RMul(RMul(RSub(entry_price_, s.sl_price), Num(100)), Num(n_))
        total_fees_est == total_fees_est_of(fee_per_contract_, n_)
        net_profit_tp == RSub(profit_tp_gross, total_fees_est)
        pos == RLt(Zero, balance_)
        acct_gain_tp_net ==
            IF pos THEN RMul(RDiv(net_profit_tp, balance_), Num(100)) ELSE Zero
    IN  [contracts |-> n_,
         inv_pct |-> s.inv_pct, rsk_pct |-> s.rsk_pct, sl_pct |-> s.sl_pct,
         tp_pct_effective |->
             IF RLt(Zero, entry_price_)
             THEN RMul(RSub(RDiv(tp_price, entry_price_), Num(1)), Num(100))
             ELSE Zero,
         pos_cost |-> RMul(Num(n_), s.cost_per_contract),
         tp_price |-> tp_price, sl_price |-> s.sl_price,
         profit_tp_gross |-> profit_tp_gross, loss_sl |-> loss_sl,
         total_fees_est |-> total_fees_est, net_profit_tp |-> net_profit_tp,
         acct_gain_tp_gross |->
             IF pos THEN RMul(RDiv(profit_tp_gross, balance_), Num(100)) ELSE Zero,
         acct_loss_sl_gross |->
             IF pos THEN RMul(RDiv(loss_sl, balance_), Num(100)) ELSE Zero,
         acct_gain_tp_net |-> acct_gain_tp_net,
         max_by_invest |-> s.max_by_invest, max_by_risk |-> s.max_by_risk,
         inv_budget |-> s.inv_budget, rsk_budget |-> s.rsk_budget,
         cost_per_contract |-> s.cost_per_contract,
         diff_from_target |-> RAbs(RSub(acct_gain_tp_net, target_gain_pct_))]

\* lines 189-254: the candidate for the solved percentage tp_pct_raw, None
\* when the iteration is skipped by the continue of line 190
candidate_for(s, balance_, entry_price_, target_gain_pct_, fee_per_contract_, n_, tp_pct_raw) ==
    IF tp_pct_raw = None THEN None
    ELSE candidate_at(s, balance_, entry_price_, target_gain_pct_, fee_per_contract_,
                      n_, tp_price_of(entry_price_, tp_pct_raw))

\* lines 181-254: the candidate of one loop iteration
candidate_of(s, balance_, entry_price_, target_gain_pct_, fee_per_contract_, n_) ==
    candidate_for(s, balance_, entry_price_, target_gain_pct_, fee_per_contract_, n_,
                  compute_tp_percent_for_target_account_gain(
                      balance_, entry_price_, n_, target_gain_pct_, fee_per_contract_))

\* mutant of line 257: keeps the candidate that is farther from the target
replaces_best_farther(best_, diff) ==
    best_ = None \/ RLt(best_.diff_from_target, diff)

\* mutant of line 257: less-or-equal, a later tie replaces the best
replaces_best_on_tie(best_, diff) ==
    best_ = None \/ RLe(diff, best_.diff_from_target)

\* line 257: does the candidate with deviation diff replace best?
replaces_best(best_, diff) ==
    best_ = None \/ RLt(diff, best_.diff_from_target)

\* line 285: best.pop("diff_from_target", None)
pop_diff(best_) ==
    [f \in (DOMAIN best_) \ {"diff_from_target"} |-> best_[f]]


\* ------------------------------------------------------------------------
\* Inputs of one evaluation of calc
\* ------------------------------------------------------------------------

\* largest max_contracts of an evaluation that is explored
MaxScan == 6
\* balances are taken this many dollars below and above each tier ceiling
TierSpread == 1
\* target gains are MIN_GOAL_ACCT_GAIN * 1 .. MaxTargetStep (0.20 .. 1.00)
MaxTargetStep == 5
\* fees per contract are 0.04 * 0 .. MaxFeeStep
MaxFeeStep == 1

Balances ==
    {Num(-100), Zero, Num(100), Num(467), Num(920), Num(1000)}
    \cup {RAdd(INVEST_TIERS[i][1], Num(d)) : i \in 1..3, d \in (-TierSpread)..TierSpread}

EntryPrices ==
    {Rat(-25, 100), Zero, Rat(1, 100), Rat(15, 100), Rat(25, 100), Rat(255, 1000),
     Rat(26, 100), Rat(35, 100), Rat(36, 100), Rat(50, 100), Rat(51, 100),
     Num(5), Num(20)}

Targets == {RMul(MIN_GOAL_ACCT_GAIN, Num(k)) : k \in 1..MaxTargetStep}

Fees == {Rat(4 * k, 100) : k \in 0..MaxFeeStep}

\* ------------------------------------------------------------------------
\* State: the arguments and locals of one call of calc
\* ------------------------------------------------------------------------

VARIABLES balance, entry_price, trade_number, target_gain_pct, fee_per_contract,
          pc, sz, n, best, raw_hist, result

inputs == <<balance, entry_price, trade_number, target_gain_pct, fee_per_contract>>
vars == <<balance, entry_price, trade_number, target_gain_pct, fee_per_contract,
          pc, sz, n, best, raw_hist, result>>

Init ==
    /\ balance \in Balances
    /\ entry_price \in EntryPrices
    /\ trade_number \in {1, 2}
    /\ target_gain_pct \in Targets
    /\ fee_per_contract \in Fees
    /\ sizing(balance, entry_price, trade_number).max_contracts <= MaxScan
    /\ pc = "start"
    /\ sz = None
    /\ n = 0
    /\ best = None
    /\ raw_hist = << >>
    /\ result = None

\* lines 120-175: budgets, stop, contract limits; the zero plan when nothing fits
calc_size ==
    /\ pc = "start"
    /\ sz' = sizing(balance, entry_price, trade_number)
    /\ IF sz'.raised
       THEN pc' = "raised" /\ UNCHANGED <<n, best, result>>
       ELSE IF sz'.max_contracts = 0
       THEN /\ result' = zero_plan(sz', entry_price)
            /\ pc' = "done"
            /\ UNCHANGED <<n, best>>
       ELSE /\ pc' = "search"
            /\ best' = None
            /\ n' = 1
            /\ UNCHANGED result
    /\ UNCHANGED <<inputs, raw_hist>>

\* did a division of the iteration raise?
cand_raised(c) ==
    c # None /\ (IsErr(c.tp_pct_effective) \/ IsErr(c.acct_gain_tp_gross)
                 \/ IsErr(c.acct_loss_sl_gross) \/ IsErr(c.acct_gain_tp_net)
                 \/ IsErr(c.tp_price))

\* lines 180-258: one iteration of the search loop
calc_search_step ==
    /\ pc = "search"
    /\ n <= sz.max_contracts
    /\ \E tp_pct_raw \in {compute_tp_percent_for_target_account_gain(
                              balance, entry_price, n, target_gain_pct, fee_per_contract)} :
       \E candidate \in {candidate_for(sz, balance, entry_price, target_gain_pct,
                                       fee_per_contract, n, tp_pct_raw)} :
           /\ raw_hist' = Append(raw_hist, tp_pct_raw)
           /\ IF cand_raised(candidate)
              THEN pc' = "raised" /\ UNCHANGED <<best, n>>
              ELSE /\ best' = IF candidate = None THEN best
                              ELSE IF replaces_best(best, candidate.diff_from_target)
                                   THEN candidate
                                   ELSE best
                   /\ n' = n + 1
                   /\ pc' = "search"
    /\ UNCHANGED <<inputs, sz, result>>

\* lines 260-286: the loop is over; fallback plan or the best candidate
calc_return ==
    /\ pc = "search"
    /\ n > sz.max_contracts
    /\ result' = IF best = None THEN fallback_plan(sz, entry_price)
                 ELSE pop_diff(best)
    /\ pc' = "done"
    /\ UNCHANGED <<inputs, sz, n, best, raw_hist>>

Next == calc_size \/ calc_search_step \/ calc_return

Spec == Init /\ [][Next]_vars


\* ------------------------------------------------------------------------
\* Properties
\* ------------------------------------------------------------------------

Returned == pc = "done"

\* the deviation |acct_gain_tp_net - target_gain_pct| of a record
deviation(r) == RAbs(RSub(r.acct_gain_tp_net, target_gain_pct))

\* the deviation the search computes for contract count k
deviation_at(k) ==
    candidate_of(sz, balance, entry_price, target_gain_pct, fee_per_contract, k).diff_from_target

\* C1: closest-match selection: a returned plan with contracts > 0 deviates
\* from the target gain no more than any contract count in 1..max_contracts.
C1_ClosestMatch ==
    (Returned /\ result.contracts > 0) =>
        \A k \in 1..sz.max_contracts : RLe(deviation(result), deviation_at(k))

\* C1 witness: the returned count lies strictly inside the scanned range and
\* some other count is strictly farther from the target.
C1_Witness ==
    /\ Returned
    /\ result.contracts > 1
    /\ result.contracts < sz.max_contracts
    /\ \E k \in 1..sz.max_contracts : RLt(deviation(result), deviation_at(k))


\* is the price a multiple of the 0.01 tick?
tick_aligned(p) == RRound2(p) = p

\* C2 (as claimed): every returned plan with contracts > 0 and entry_price > 0,
\* tick-aligned or not, has tp_price >= entry_price + 0.01.
C2_Original ==
    (Returned /\ result.contracts > 0 /\ RLt(Zero, entry_price)) =>
        RLe(RAdd(entry_price, MIN_TICK), result.tp_price)

\* C2 (amended): every returned plan with contracts > 0 has tp_price strictly
\* above entry_price, and at least one tick above it when entry_price is a
\* multiple of the tick.
C2_TpAboveEntry ==
    (Returned /\ result.contracts > 0) =>
        /\ RLt(entry_price, result.tp_price)
        /\ tick_aligned(entry_price) =>
               RLe(RAdd(entry_price, MIN_TICK), result.tp_price)

\* C2 witness: the returned plan's price comes from the one-tick bump (the
\* rounded price was not above the entry price).
C2_Witness ==
    /\ Returned
    /\ result.contracts > 0
    /\ RLe(RRound2(RMul(entry_price,
                        RAdd(Num(1), RDiv(raw_hist[result.contracts], Num(100))))),
           entry_price)
    /\ result.tp_price = RAdd(entry_price, MIN_TICK)

\* the fields of a plan that hold dollars, prices or percentages
MoneyPctFields ==
    {"inv_pct", "rsk_pct", "sl_pct", "tp_pct_effective", "pos_cost", "tp_price",
     "sl_price", "profit_tp_gross", "loss_sl", "total_fees_est", "net_profit_tp",
     "acct_gain_tp_gross", "acct_loss_sl_gross", "acct_gain_tp_net",
     "inv_budget", "rsk_budget", "cost_per_contract"}

\* the fields that describe the position and its profit and loss
PnlFields ==
    {"tp_pct_effective", "pos_cost", "profit_tp_gross", "loss_sl",
     "total_fees_est", "net_profit_tp", "acct_gain_tp_gross",
     "acct_loss_sl_gross", "acct_gain_tp_net"}

\* C3 (as claimed): when max_contracts = 0 the returned record has
\* contracts = 0 and every monetary or percentage field is exactly 0.
C3_Original ==
    (Returned /\ sz.max_contracts = 0) =>
        /\ result.contracts = 0
        /\ \A f \in MoneyPctFields : result[f] = Zero

\* C3 (amended): when max_contracts = 0 the returned record has contracts = 0
\* and every position and profit-and-loss field exactly 0, while tp_price is
\* the entry price and the percentages, the stop price, the budgets, the cost
\* per contract and the two limits carry the computed values.
C3_ZeroPlan ==
    (Returned /\ sz.max_contracts = 0) =>
        /\ result.contracts = 0
        /\ \A f \in PnlFields : result[f] = Zero
        /\ result.tp_price = entry_price
        /\ \A f \in {"inv_pct", "rsk_pct", "sl_pct", "sl_price", "inv_budget",
                     "rsk_budget", "cost_per_contract", "max_by_invest",
                     "max_by_risk"} : result[f] = sz[f]

\* C3 witness: a zero plan returned for a positive balance and entry price,
\* with a deploy budget that would buy contracts and non-zero percentages.
C3_Witness ==
    /\ Returned
    /\ sz.max_contracts = 0
    /\ RLt(Zero, balance) /\ RLt(Zero, entry_price)
    /\ result.max_by_invest > 0
    /\ result.inv_pct # Zero /\ result.inv_budget # Zero


\* the fixed regression vector: balance 467.00, entry 0.25, trade 1,
\* target 0.80 %, fee 0.04
RegressionCall ==
    /\ balance = Num(467)
    /\ entry_price = Rat(25, 100)
    /\ trade_number = 1
    /\ target_gain_pct = Rat(80, 100)
    /\ fee_per_contract = Rat(4, 100)

\* C4 (as claimed): on the regression vector the search at n = 1 has fees
\* 0.08, required gross profit 3.816, tp_pct_raw 152.64 % and calc returns
\* tp_price 0.63.
C4_Original ==
    (RegressionCall /\ Returned) =>
        /\ tp_total_fees_est(fee_per_contract, 1) = Rat(8, 100)
        /\ tp_profit_goal_gross(balance, 1, target_gain_pct, fee_per_contract)
               = Rat(3816, 1000)
        /\ raw_hist[1] = Rat(15264, 100)
        /\ result.tp_price = Rat(63, 100)

\* C4 (amended): on the regression vector the search at n = 1 has fees 0.08,
\* required gross profit 3.816, tp_pct_raw 15.264 % (3.816 / 25.00 * 100) and
\* a cent-rounded tp_price of 0.29 (0.28816 rounded), which calc returns.
C4_RegressionTp ==
    (RegressionCall /\ Returned) =>
        /\ tp_total_fees_est(fee_per_contract, 1) = Rat(8, 100)
        /\ tp_profit_goal_gross(balance, 1, target_gain_pct, fee_per_contract)
               = Rat(3816, 1000)
        /\ raw_hist[1] = Rat(15264, 1000)
        /\ result.contracts = 1
        /\ result.tp_price = Rat(29, 100)

\* C4 witness: calc has returned a one-contract plan for the regression vector.
C4_Witness ==
    RegressionCall /\ Returned /\ Len(raw_hist) = 1 /\ result.contracts = 1

\* C5: on the regression vector inv_budget = 163.45, cost_per_contract = 25.00,
\* max_by_invest = 6, sl_price = 0.175, loss per contract = 7.50,
\* rsk_budget = 9.34, max_by_risk = 1, so max_contracts = 1 and contracts = 1.
C5_RegressionSizing ==
    (RegressionCall /\ pc # "start") =>
        /\ sz.inv_budget = Rat(16345, 100)
        /\ sz.cost_per_contract = Num(25)
        /\ sz.max_by_invest = 6
        /\ sz.sl_price = Rat(175, 1000)
        /\ sz.loss_per_contract = Rat(750, 100)
        /\ sz.rsk_budget = Rat(934, 100)
        /\ sz.max_by_risk = 1
        /\ sz.max_contracts = 1
        /\ Returned => (result.contracts = 1 /\ result.max_by_invest = 6
                        /\ result.max_by_risk = 1
                        /\ result.inv_budget = Rat(16345, 100)
                        /\ result.rsk_budget = Rat(934, 100))

\* C5 witness: the regression call has returned and the risk budget, not the
\* deploy budget, is what limits it.
C5_Witness ==
    /\ RegressionCall /\ Returned
    /\ result.contracts = 1
    /\ result.max_by_risk < result.max_by_invest

\* C6: for the same balance and entry price, max_contracts of trade 2 is at
\* most max_contracts of trade 1.
C6_SecondaryLePrimary ==
    (pc # "start") =>
        IF trade_number = 2
        THEN sz.max_contracts <= sizing(balance, entry_price, 1).max_contracts
        ELSE sizing(balance, entry_price, 2).max_contracts <= sz.max_contracts

\* C6 witness: a trade-2 call sized to at least one contract where trade 1
\* would be allowed strictly more, although the trade-2 stop is tighter.
C6_Witness ==
    /\ pc # "start"
    /\ trade_number = 2
    /\ sz.max_contracts >= 1
    /\ sz.max_by_risk < sz.max_by_invest
    /\ RLt(sz.sl_pct, SL_TRADE1_BASE)
    /\ sz.max_contracts < sizing(balance, entry_price, 1).max_contracts

\* C7: in every returned plan with contracts > 0, total_fees_est is
\* fee_per_contract * contracts * 2, net_profit_tp is profit_tp_gross minus
\* total_fees_est, and the TP percentage solved for that contract count
\* grosses the net goal up by the same fee amount.
C7_FeeAccounting ==
    (Returned /\ result.contracts > 0) =>
        LET k == result.contracts
            goal_net == RDiv(RMul(balance, target_gain_pct), Num(100))
            solved_gross == RDiv(RMul(raw_hist[k],
                                      RMul(RMul(entry_price, Num(100)), Num(k))),
                                 Num(100))
        IN  /\ result.total_fees_est = RMul(RMul(fee_per_contract, Num(k)), Num(2))
            /\ result.net_profit_tp = RSub(result.profit_tp_gross, result.total_fees_est)
            /\ RSub(solved_gross, goal_net) = result.total_fees_est

\* C7 witness: a returned plan of several contracts with a non-zero fee.
C7_Witness ==
    /\ Returned
    /\ result.contracts > 1
    /\ RLt(Zero, fee_per_contract)
    /\ RLt(Zero, result.total_fees_est)


\* C8: the scan visits n = 1, 2, ... in ascending order and replaces the best
\* candidate only by a strictly smaller deviation, so among the contract
\* counts of minimum deviation the returned one is the smallest.
C8_ScanStep ==
    (pc = "search" /\ pc' = "search") =>
        /\ n' = n + 1
        /\ best' # best =>
               /\ best'.contracts = n
               /\ best # None => RLt(best'.diff_from_target, best.diff_from_target)

C8_LowestOfTies ==
    (Returned /\ result.contracts > 0) =>
        \A k \in 1..sz.max_contracts :
            deviation_at(k) = deviation(result) => result.contracts <= k

C8_TieBreak == [](C8_LowestOfTies) /\ [][C8_ScanStep]_vars

\* C8 witness: a returned plan whose deviation is also reached by a larger
\* contract count.
C8_Witness ==
    /\ Returned
    /\ result.contracts > 0
    /\ \E k \in 1..sz.max_contracts :
           k > result.contracts /\ deviation_at(k) = deviation(result)

\* C9: a call with balance <= 0 or entry_price <= 0 never raises, never enters
\* the search loop and returns the zero plan with contracts = 0.
C9_DegenerateInputs ==
    (RLe(balance, Zero) \/ RLe(entry_price, Zero)) =>
        /\ pc \in {"start", "done"}
        /\ n = 0 /\ raw_hist = << >> /\ best = None
        /\ Returned =>
               /\ ~sz.raised
               /\ sz.max_contracts = 0
               /\ result = zero_plan(sz, entry_price)
               /\ result.contracts = 0

\* C9 witness: calc has returned for an entry price of zero, where both
\* divisions of the sizing would divide by zero, with a positive balance.
C9_Witness ==
    /\ Returned
    /\ entry_price = Zero
    /\ RLt(Zero, balance)
    /\ sz.cost_per_contract = Zero /\ sz.loss_per_contract = Zero
    /\ result.contracts = 0

\* C10: the deploy percentage of either trade slot and the base risk
\* percentage never increase as the balance grows.
C10_TierMonotone ==
    (pc # "start") =>
        \A a \in Balances :
            /\ RLt(a, balance) =>
                   /\ RLe(sz.inv_pct, invest_percent(a, trade_number))
                   /\ RLe(base_risk_percent(balance), base_risk_percent(a))
                   /\ RLe(sz.rsk_pct, rsk_pct_of(base_risk_percent(a), trade_number))
            /\ RLt(balance, a) =>
                   /\ RLe(invest_percent(a, trade_number), sz.inv_pct)
                   /\ RLe(base_risk_percent(a), base_risk_percent(balance))
                   /\ RLe(rsk_pct_of(base_risk_percent(a), trade_number), sz.rsk_pct)

\* C10 witness: a sized call whose balance lies in the last tier, with a
\* smaller balance of strictly larger deploy and risk percentage.
C10_Witness ==
    /\ pc # "start"
    /\ RLt(Num(300000), balance)
    /\ \E a \in Balances :
           /\ RLt(a, balance)
           /\ RLt(sz.inv_pct, invest_percent(a, trade_number))
           /\ RLt(base_risk_percent(balance), base_risk_percent(a))

\* the tightening of the first bracket whose ceiling is >= the entry price
bracket_tightening(e) ==
    IF RLe(e, Rat(25, 100)) THEN 4
    ELSE IF RLe(e, Rat(35, 100)) THEN 3
    ELSE IF RLe(e, Rat(50, 100)) THEN 2
    ELSE 0

\* clamp(v, 15, 26)
clamp_15_26(v) == IF v < 15 THEN 15 ELSE IF v > 26 THEN 26 ELSE v

\* C11: the stop-loss percentage of a trade-2 call is clamp(24 - t, 15, 26)
\* for the tightening t of the entry price's bracket; it never decreases as
\* the entry price grows and is strictly below the fixed 30 % of trade 1.
C11_SecondaryStop ==
    (pc # "start" /\ trade_number = 2) =>
        /\ sz.sl_pct = Num(clamp_15_26(24 - bracket_tightening(entry_price)))
        /\ RLt(sz.sl_pct, sl_pct_of(entry_price, 1))
        /\ sl_pct_of(entry_price, 1) = Num(30)
        /\ \A e \in EntryPrices :
               /\ RLt(e, entry_price) => RLe(sl_pct_of(e, 2), sz.sl_pct)
               /\ RLt(entry_price, e) => RLe(sz.sl_pct, sl_pct_of(e, 2))

\* C11 witness: a sized trade-2 call in the 0.35 .. 0.50 bracket (stop 22 %),
\* with a cheaper entry of tighter stop and a dearer entry of looser stop.
C11_Witness ==
    /\ pc # "start"
    /\ trade_number = 2
    /\ sz.sl_pct = Num(22)
    /\ \E e \in EntryPrices : RLt(e, entry_price) /\ RLt(sl_pct_of(e, 2), sz.sl_pct)
    /\ \E e \in EntryPrices : RLt(entry_price, e) /\ RLt(sz.sl_pct, sl_pct_of(e, 2))

\* the percentages and budgets calc computes for the balance in slot t
budgets_of_slot(t) == sizing(balance, entry_price, t)

\* C12: the inv_pct, rsk_pct, inv_budget and rsk_budget reported for trade 2
\* are exactly half of those reported for trade 1 with the same balance,
\* whatever the entry price (and so whatever the stop-loss tightening).
C12_SecondaryHalf ==
    Returned =>
        /\ \A f \in {"inv_pct", "rsk_pct", "inv_budget", "rsk_budget"} :
               /\ result[f] = sz[f]
               /\ trade_number = 2 =>
                      RMul(result[f], Num(2)) = budgets_of_slot(1)[f]
               /\ trade_number = 1 =>
                      result[f] = RMul(budgets_of_slot(2)[f], Num(2))
        /\ \A e \in EntryPrices :
               \E s1 \in {sizing(balance, e, 1)}, s2 \in {sizing(balance, e, 2)} :
                   /\ \A f \in {"inv_pct", "rsk_pct", "inv_budget", "rsk_budget"} :
                          RMul(s2[f], Num(2)) = s1[f]
                   /\ result.inv_budget = (IF trade_number = 1 THEN s1 ELSE s2).inv_budget
                   /\ result.rsk_budget = (IF trade_number = 1 THEN s1 ELSE s2).rsk_budget

\* C12 witness: a returned trade-2 plan with contracts, a tightened stop and
\* non-zero budgets.
C12_Witness ==
    /\ Returned
    /\ trade_number = 2
    /\ result.contracts > 0
    /\ RLt(result.sl_pct, SL_TRADE2_BASE)
    /\ RLt(Zero, result.inv_budget) /\ RLt(Zero, result.rsk_budget)
    /\ result.inv_pct = Rat(175, 10) /\ result.rsk_pct = Num(1)

\* C13: a returned plan with contracts > 0 has contracts within both limits,
\* a purchase cost within the deploy budget and a loss at the stop within
\* the risk budget.
C13_BudgetsRespected ==
    (Returned /\ result.contracts > 0) =>
        /\ result.contracts <= result.max_by_invest
        /\ result.contracts <= result.max_by_risk
        /\ RLe(result.pos_cost, result.inv_budget)
        /\ RLe(result.loss_sl, result.rsk_budget)
        /\ result.pos_cost = RMul(Num(result.contracts * 100), entry_price)
        /\ result.loss_sl =
               RMul(Num(result.contracts * 100), RSub(entry_price, result.sl_price))

\* C13 witness: a returned plan of several contracts that takes every
\* contract the risk budget allows, the risk budget being the tighter limit.
C13_Witness ==
    /\ Returned
    /\ result.contracts > 1
    /\ result.contracts = result.max_by_risk
    /\ result.max_by_risk < result.max_by_invest
    /\ RLt(Zero, result.loss_sl)

\* C14: the returned contracts is 0 exactly when max_contracts = 0.  When
\* max_contracts >= 1 the balance and the entry price are positive, every
\* iteration of the search solves a TP percentage (never None) and leaves a
\* best candidate, and the fallback plan after the search is never returned.
C14_ZeroIffNothingFits ==
    (pc # "start") =>
        /\ sz.max_contracts >= 1 => (RLt(Zero, balance) /\ RLt(Zero, entry_price))
        /\ \A i \in 1..Len(raw_hist) : raw_hist[i] # None
        /\ Len(raw_hist) >= 1 => (best # None /\ best.contracts \in 1..Len(raw_hist))
        /\ pc # "raised"
        /\ Returned =>
               /\ result.contracts = 0 <=> sz.max_contracts = 0
               /\ sz.max_contracts >= 1 =>
                      (Len(raw_hist) = sz.max_contracts /\ best # None
                       /\ result = pop_diff(best))
               /\ sz.max_contracts = 0 => raw_hist = << >>

\* C14 witness: calc has returned after a search of several iterations, each
\* with a solved TP percentage, and the plan has contracts.
C14_Witness ==
    /\ Returned
    /\ sz.max_contracts >= 2
    /\ Len(raw_hist) = sz.max_contracts
    /\ best # None
    /\ result.contracts >= 1

\* the cent-rounded price of line 196 for contract count k, before the bump
rounded_price_at(k) ==
    RRound2(RMul(entry_price, RAdd(Num(1), RDiv(raw_hist[k], Num(100)))))

\* how far the net profit of the returned plan is from the dollar goal
goal_miss == RAbs(RSub(result.net_profit_tp,
                       RDiv(RMul(balance, target_gain_pct), Num(100))))

====
